---- MODULE Spec2Model ----
(***************************************************************************)
(* Fermi market-making game: the round engine (engine.py) behind the HTTP  *)
(* handlers (api.py).  A session goes through rounds 1..3 (submit_quote)   *)
(* and a terminal round 4 (finalize_round4); each round calls the language *)
(* model (OpenRouterClient.chat) between recording the quote and recording *)
(* the report.  The handlers are plain `def` endpoints, which the server   *)
(* runs on worker threads, so two calls may overlap; the point where a     *)
(* call gives way to another is the blocking client.chat request.          *)
(***************************************************************************)
EXTENDS Integers, Sequences, FiniteSets, TLC

\* ------------------------------------------------------------------ bounds
MaxSessions == 1      \* sessions started in one run of the server
NumThreads  == 2      \* calls that may wait on client.chat at the same time
MaxQuotes   == 4      \* quotes recorded in one run, over all sessions
MaxPrice    == 11     \* the largest bid or ask handed to the metrics
Precision   == 5      \* bits in the significand of a float
MaxLen      == 4      \* tokens in a text handed to a parser
MaxExcerpt  == 3      \* tokens kept of a text in the round memory (the code
                      \* keeps 400 characters; the texts of the model are short)

\* sessions started in one run of a caller that lets each call finish first
SeqSessions == MaxSessions + 1

Ids       == 1 .. (MaxSessions + 1)        \* the identifiers a caller may name
\* <<bid, ask>> as sent by a caller: one valid quote, and one for each way to be invalid
QuoteInputs == {<< 1, 2 >>, << 0, 1 >>, << 1, 0 >>, << 2, 1 >>}
None      == << "<None>" >>                \* Python's None, where a text may stand
Rationales == {None}
Questions == {"How many breaths per day?"}

\* ------------------------------------------------- text (token sequences)
\* A text is a sequence of tokens: the labels the parsers look for (each taken
\* as one token), a word, a blank, a line break, and the letter "\u0130" (capital
\* I with a dot above), one of the characters that str.lower() turns into two.
Hint1     == "Hint:"
Coaching1 == "Coaching:"
Final1    == "Final Report:"
Word      == "w"
Blank     == " "
NL        == "\n"
IDot      == "I."

IsSpace(c) == c \in {Blank, NL}

\* str.lower() of one token: "\u0130".lower() is "i" followed by a combining dot
lower_tok(c) ==
    CASE c = Hint1 -> << "hint:" >>
      [] c = Coaching1 -> << "coaching:" >>
      [] c = Final1 -> << "final report:" >>
      [] c = IDot -> << "i", "." >>
      [] OTHER -> << c >>

\* str.lower()
RECURSIVE lower(_)
lower(s) == IF s = << >> THEN << >> ELSE lower_tok(Head(s)) \o lower(Tail(s))

\* `key in text`
Contains(s, key) == \E i \in 1 .. Len(s) : s[i] = key

RECURSIVE lstrip(_)
lstrip(s) == IF s # << >> /\ IsSpace(Head(s)) THEN lstrip(Tail(s)) ELSE s

RECURSIVE rstrip(_)
rstrip(s) ==
    IF s # << >> /\ IsSpace(s[Len(s)]) THEN rstrip(SubSeq(s, 1, Len(s) - 1)) ELSE s

\* str.strip()
strip(s) == rstrip(lstrip(s))

\* str.splitlines(): a trailing line break opens no further line
RECURSIVE splitlines_from(_, _)
splitlines_from(s, cur) ==
    IF s = << >> THEN (IF cur = << >> THEN << >> ELSE << cur >>)
    ELSE IF Head(s) = NL THEN << cur >> \o splitlines_from(Tail(s), << >>)
    ELSE splitlines_from(Tail(s), Append(cur, Head(s)))

splitlines(s) == splitlines_from(s, << >>)

\* "\n".join(lines)
RECURSIVE join(_)
join(lines) ==
    IF lines = << >> THEN << >>
    ELSE IF Len(lines) = 1 THEN lines[1]
    ELSE lines[1] \o << NL >> \o join(Tail(lines))

\* str.startswith(label) of a stripped, lowered line
startswith(ll, label) == ll # << >> /\ ll[1] = label

\* the line loop of _split_hint_and_coaching; which = "none" is Python's None
RECURSIVE scan_lines(_, _, _, _)
scan_lines(lines, hint, coach, which) ==
    IF lines = << >> THEN << hint, coach >>
    ELSE LET line == Head(lines)
             ll   == lower(strip(line))
         IN  IF startswith(ll, "hint:") THEN scan_lines(Tail(lines), hint, coach, "hint")
             ELSE IF startswith(ll, "coaching:") THEN scan_lines(Tail(lines), hint, coach, "coach")
             ELSE IF which = "hint" THEN scan_lines(Tail(lines), Append(hint, line), coach, which)
             ELSE IF which = "coach" THEN scan_lines(Tail(lines), hint, Append(coach, line), which)
             ELSE scan_lines(Tail(lines), hint, coach, which)

\* the split whose fallback hands the text back untrimmed
_split_hint_and_coachingNoStrip(content) ==
    IF Contains(lower(content), "hint:") /\ Contains(lower(content), "coaching:")
    THEN LET r == scan_lines(splitlines(content), << >>, << >>, "none")
         IN  << strip(join(r[1])), strip(join(r[2])) >>
    ELSE << content, << >> >>

_split_hint_and_coaching(content) ==
    IF Contains(lower(content), "hint:") /\ Contains(lower(content), "coaching:")
    THEN LET r == scan_lines(splitlines(content), << >>, << >>, "none")
         IN  << strip(join(r[1])), strip(join(r[2])) >>
    ELSE << strip(content), << >> >>

\* lower.index(key)
RECURSIVE index(_, _)
index(s, key) == IF Head(s) = key THEN 1 ELSE 1 + index(Tail(s), key)

_extract_final_report(content) ==
    IF Contains(lower(content), "final report:")
    THEN strip(SubSeq(content, index(lower(content), "final report:"), Len(content)))
    ELSE strip(content)

\* the answer of the test double: "Hint: test\nCoaching: tighten your spread"
DummyText == << Hint1, Blank, Word, NL, Coaching1, Blank, Word >>

\* an answer in the format the system prompt asks for in rounds 1-3: each label
\* on a line of its own, its text on the line below
RoundText == << Hint1, NL, Word, Blank, Word, Blank, Word, NL, Coaching1, NL, Word >>

\* what the language model may answer
Contents  == {RoundText}

\* the texts handed to the parsers on their own
Alphabet == {Hint1, Coaching1, Final1, Word, Blank, NL, IDot}

Texts == UNION {[1 .. n -> Alphabet] : n \in 0 .. MaxLen} \cup {DummyText, RoundText}

\* ------------------------------------------------------------- metrics
\* A float is a binary fraction <<n, d>>, d a power of two, in lowest terms, with
\* a significand of Precision bits (a Python float has 53; the exponent range is
\* not modelled).  Every operation rounds its exact result to the nearest float,
\* ties to the even significand.
RECURSIVE Lowest(_, _)
Lowest(n, d) == IF d > 1 /\ n % 2 = 0 THEN Lowest(n \div 2, d \div 2) ELSE << n, d >>

RECURSIVE Pow2(_)
Pow2(k) == IF k = 0 THEN 1 ELSE 2 * Pow2(k - 1)

\* the significands of the floats are the integers MinSig .. MaxSig - 1
MinSig == Pow2(Precision - 1)

MaxSig == Pow2(Precision)

\* n / d > 0 rounded: n / d is brought into [MinSig, MaxSig) by the power of two
\* up / down, rounded to an integer there, and scaled back
RECURSIVE RoundPos(_, _, _, _)
RoundPos(n, d, up, down) ==
    IF n < MinSig * d THEN RoundPos(2 * n, d, 2 * up, down)
    ELSE IF n >= MaxSig * d THEN RoundPos(n, 2 * d, up, 2 * down)
    ELSE LET q == n \div d
             r == n % d
             m == IF 2 * r > d \/ (2 * r = d /\ q % 2 = 1) THEN q + 1 ELSE q
         IN  Lowest(m * down, up)

\* float("nan") among the prices, which are whole numbers in the model: the
\* number above the largest of them stands for it
NaN == MaxPrice + 1

\* x <= y and x < y on prices: a comparison with NaN is false
le(x, y) == x # NaN /\ y # NaN /\ x <= y

lt(x, y) == x # NaN /\ y # NaN /\ x < y

\* NaN among the floats <<n, d>>, and whether a float is it
fNaN == << 0, 0 >>

isnan(x) == x[2] = 0

\* the float nearest to the fraction n / d, d > 0
fl(n, d) ==
    IF n = 0 THEN << 0, 1 >>
    ELSE IF n > 0 THEN RoundPos(n, d, 1, 1)
    ELSE LET x == RoundPos(0 - n, d, 1, 1) IN << 0 - x[1], x[2] >>

\* float(i) of a price
float(i) == IF i = NaN THEN fNaN ELSE fl(i, 1)

\* x + y, x - y, x * y, x / y (y > 0 or NaN), x <= y and x == y on floats; an
\* operation on NaN gives NaN, a comparison with NaN is false
fadd(x, y) ==
    IF isnan(x) \/ isnan(y) THEN fNaN ELSE fl(x[1] * y[2] + y[1] * x[2], x[2] * y[2])

fsub(x, y) ==
    IF isnan(x) \/ isnan(y) THEN fNaN ELSE fl(x[1] * y[2] - y[1] * x[2], x[2] * y[2])

fmul(x, y) == IF isnan(x) \/ isnan(y) THEN fNaN ELSE fl(x[1] * y[1], x[2] * y[2])

fdiv(x, y) == IF isnan(x) \/ isnan(y) THEN fNaN ELSE fl(x[1] * y[2], x[2] * y[1])

fle(x, y) == ~isnan(x) /\ ~isnan(y) /\ x[1] * y[2] <= y[1] * x[2]

feq(x, y) == ~isnan(x) /\ ~isnan(y) /\ x = y

\* max(0.0, x): x when x > 0.0, and 0.0 otherwise, so for NaN too
fmax0(x) == IF ~isnan(x) /\ x[1] > 0 THEN x ELSE << 0, 1 >>

\* bid and ask are prices (whole numbers, or NaN); the results are floats
_calc_mid(bid, ask) == fdiv(fadd(float(bid), float(ask)), fl(2, 1))

_calc_width(bid, ask) == fmax0(fsub(float(ask), float(bid)))

\* 100.0 * width / bid without the factor 100.0
_calc_width_pct_of_bidNoScale(bid, width) ==
    IF le(bid, 0) THEN << 0, 1 >> ELSE fdiv(width, float(bid))

_calc_width_pct_of_bid(bid, width) ==
    IF le(bid, 0) THEN << 0, 1 >> ELSE fdiv(fmul(fl(100, 1), width), float(bid))

\* ------------------------------------------------------------- records
CandidateQuote(bid, ask, rationale) == [bid |-> bid, ask |-> ask, rationale |-> rationale]

RoundReport(round_index, bid, ask, mid, width, pct, hint, coaching, final_report) ==
    [round_index |-> round_index, bid |-> bid, ask |-> ask, mid |-> mid, width |-> width,
     width_pct_of_bid |-> pct, hint_or_reveal |-> hint, coaching_or_teaching |-> coaching,
     final_report |-> final_report]

SessionState(sid, question) ==
    [session_id |-> sid, question |-> question, round_number |-> 0,
     quotes |-> << >>, reports |-> << >>, final_done |-> FALSE]

\* ------------------------------------------------------ round memory
\* a text is true in a condition when it is neither None nor empty
Truthy(t) == t # None /\ t # << >>

\* the slice s[:n]
Slice(s, n) == SubSeq(s, 1, IF Len(s) < n THEN Len(s) ELSE n)

\* format(x, "g") of a price: "nan", or the digits of a whole number below
\* 10^6, as the prices of the model are
format_g(x) == IF x = NaN THEN "nan" ELSE ToString(x)

\* the lines _format_round_memory appends for one report, without the cut
\* of its texts ("*" stands for the bullet of the code)
round_memory_linesNoCut(r) ==
    << << "- Round ", ToString(r.round_index), ": bid=", format_g(r.bid),
          ", ask=", format_g(r.ask) >> >>
    \o (IF Truthy(r.hint_or_reveal)
        THEN << << "  * Prior Hint: " >> \o strip(r.hint_or_reveal) >>
        ELSE << >>)
    \o (IF Truthy(r.coaching_or_teaching)
        THEN << << "  * Prior Coaching: " >> \o strip(r.coaching_or_teaching) >>
        ELSE << >>)
    \o (IF Truthy(r.final_report)
        THEN << << "  * Prior Final Report: " >> \o strip(r.final_report) >>
        ELSE << >>)

\* the lines _format_round_memory appends for one report (lines 29-35)
round_memory_lines(r) ==
    << << "- Round ", ToString(r.round_index), ": bid=", format_g(r.bid),
          ", ask=", format_g(r.ask) >> >>
    \o (IF Truthy(r.hint_or_reveal)
        THEN << << "  * Prior Hint: " >> \o Slice(strip(r.hint_or_reveal), MaxExcerpt) >>
        ELSE << >>)
    \o (IF Truthy(r.coaching_or_teaching)
        THEN << << "  * Prior Coaching: " >> \o Slice(strip(r.coaching_or_teaching), MaxExcerpt) >>
        ELSE << >>)
    \o (IF Truthy(r.final_report)
        THEN << << "  * Prior Final Report: " >> \o Slice(strip(r.final_report), MaxExcerpt) >>
        ELSE << >>)

\* the loop of _format_round_memory over state.reports
RECURSIVE all_memory_lines(_)
all_memory_lines(reports) ==
    IF reports = << >> THEN << >>
    ELSE round_memory_lines(Head(reports)) \o all_memory_lines(Tail(reports))

_format_round_memory(state) ==
    IF state.reports = << >> THEN << "(none)" >>
    ELSE join(all_memory_lines(state.reports))

\* ------------------------------------------------------------- state
VARIABLES
    sessions,   \* FermiGameEngine._sessions: session id -> SessionState
    inflight,   \* the calls waiting on client.chat, each with its locals
    response,   \* the answer sent by the latest step; kind "none" when it sent none
    held,       \* the SessionState object a caller inside the process holds, named
                \* by its key in the store; NoRef when it holds none
    call,       \* a helper function called on its own, with its arguments
    result      \* what that call returned, once it has

vars == << sessions, inflight, response, held, call, result >>

NoRef == 0

NoCall == [fn |-> "none"]

NoResult == [done |-> FALSE]

\* one answer: how the call ended, and the round_index of the report returned
Response(kind, round_index) == [kind |-> kind, round_index |-> round_index, detail |-> ""]

\* HTTPException(status_code, detail), and the answer of the server to an
\* exception no handler catches
HTTPException(kind, detail) == [kind |-> kind, round_index |-> 0, detail |-> detail]

\* how client.chat may fail: the RuntimeError of line 80 on a status other than
\* 200, or an exception of requests.post (line 76; here its timeout)
ChatErrors ==
    {[type |-> "RuntimeError", message |-> "OpenRouter error 429: rate limited"],
     [type |-> "Timeout", message |-> "Read timed out. (read timeout=60.0)"]}

\* the except clauses of the handlers submit_quote and finalize, for an
\* exception that left client.chat: RuntimeError is answered 502 with str(e);
\* an exception that is neither RuntimeError nor ValueError is not caught, and
\* the server answers 500 "Internal Server Error"
ChatErrorResponse(e) ==
    IF e.type = "RuntimeError" THEN HTTPException("UpstreamFailure", e.message)
    ELSE HTTPException("InternalServerError", "Internal Server Error")

Init ==
    /\ sessions = << >>
    /\ inflight = {}
    /\ response = Response("none", 0)
    /\ held = NoRef
    /\ call = NoCall
    /\ result = NoResult

\* ------------------------------------------------------------- engine
Known(session_id) == session_id \in DOMAIN sessions

\* the quote test without `ask < bid`
InvalidQuoteNoOrder(bid, ask) == le(bid, 0) \/ le(ask, 0)

\* the quote test of submit_quote and finalize_round4
InvalidQuote(bid, ask) == le(bid, 0) \/ le(ask, 0) \/ lt(ask, bid)

\* submit_quote without the test of final_done
SubmitQuoteCheckNoFinal(session_id, bid, ask) ==
    IF ~Known(session_id) THEN "NotFound"
    ELSE IF sessions[session_id].round_number >= 3 THEN "RoundExhausted"
    ELSE IF InvalidQuote(bid, ask) THEN "InvalidQuote"
    ELSE "ok"

\* submit_quote without the test of round_number
SubmitQuoteCheckNoRound(session_id, bid, ask) ==
    IF ~Known(session_id) THEN "NotFound"
    ELSE IF sessions[session_id].final_done THEN "AlreadyFinalized"
    ELSE IF InvalidQuote(bid, ask) THEN "InvalidQuote"
    ELSE "ok"

\* submit_quote testing the quote before it looks the session up
SubmitQuoteCheckQuoteFirst(session_id, bid, ask) ==
    IF InvalidQuote(bid, ask) THEN "InvalidQuote"
    ELSE IF ~Known(session_id) THEN "NotFound"
    ELSE IF sessions[session_id].final_done THEN "AlreadyFinalized"
    ELSE IF sessions[session_id].round_number >= 3 THEN "RoundExhausted"
    ELSE "ok"

\* the checks of submit_quote, in the order of the code; "ok" when all pass
SubmitQuoteCheck(session_id, bid, ask) ==
    IF ~Known(session_id) THEN "NotFound"
    ELSE IF sessions[session_id].final_done THEN "AlreadyFinalized"
    ELSE IF sessions[session_id].round_number >= 3 THEN "RoundExhausted"
    ELSE IF InvalidQuote(bid, ask) THEN "InvalidQuote"
    ELSE "ok"

\* finalize_round4 testing the quote before it tests final_done
FinalizeCheckQuoteFirst(session_id, bid, ask) ==
    IF ~Known(session_id) THEN "NotFound"
    ELSE IF InvalidQuote(bid, ask) THEN "InvalidQuote"
    ELSE IF sessions[session_id].final_done THEN "AlreadyFinalized"
    ELSE "ok"

\* finalize_round4 with the round test of submit_quote
FinalizeCheckRound(session_id, bid, ask) ==
    IF ~Known(session_id) THEN "NotFound"
    ELSE IF sessions[session_id].final_done THEN "AlreadyFinalized"
    ELSE IF sessions[session_id].round_number >= 3 THEN "RoundExhausted"
    ELSE IF InvalidQuote(bid, ask) THEN "InvalidQuote"
    ELSE "ok"

\* the checks of finalize_round4, in the order of the code; "ok" when all pass
FinalizeCheck(session_id, bid, ask) ==
    IF ~Known(session_id) THEN "NotFound"
    ELSE IF sessions[session_id].final_done THEN "AlreadyFinalized"
    ELSE IF InvalidQuote(bid, ask) THEN "InvalidQuote"
    ELSE "ok"

\* submit_quote recording the quote without advancing the round
SubmitQuoteRecordNoAdvance(state, bid, ask, rationale) ==
    [state EXCEPT !.quotes = Append(@, CandidateQuote(bid, ask, rationale))]

\* submit_quote, lines 106-107: the round advanced and the quote recorded
SubmitQuoteRecord(state, bid, ask, rationale) ==
    [state EXCEPT !.round_number = @ + 1,
                  !.quotes = Append(@, CandidateQuote(bid, ask, rationale))]

\* finalize_round4 advancing the round by one, as submit_quote does
FinalizeRecordAdvance(state, bid, ask, rationale) ==
    [state EXCEPT !.round_number = @ + 1,
                  !.quotes = Append(@, CandidateQuote(bid, ask, rationale))]

\* finalize_round4, lines 148-149
FinalizeRecord(state, bid, ask, rationale) ==
    [state EXCEPT !.round_number = 4,
                  !.quotes = Append(@, CandidateQuote(bid, ask, rationale))]

\* the parsers on each text the language model may answer
SplitOf == [content \in Contents |-> _split_hint_and_coaching(content)]

ExtractOf == [content \in Contents |-> _extract_final_report(content)]

\* submit_quote, lines 129-136: the report built from the model's answer; its
\* round_index is read from the session when the answer has arrived
SubmitQuoteReport(state, f, content) ==
    RoundReport(state.round_number, f.bid, f.ask, f.mid, f.width, f.pct,
                SplitOf[content][1], SplitOf[content][2], None)

\* finalize_round4, lines 170-179
FinalizeReport(f, content) ==
    RoundReport(4, f.bid, f.ask, f.mid, f.width, f.pct,
                None, None, ExtractOf[content])

\* submit_quote, line 137
SubmitQuoteAppend(state, report) == [state EXCEPT !.reports = Append(@, report)]

\* finalize_round4 appending its report without setting final_done
FinalizeAppendNoFlag(state, report) == [state EXCEPT !.reports = Append(@, report)]

\* finalize_round4, lines 172 and 180
FinalizeAppend(state, report) ==
    [state EXCEPT !.final_done = TRUE, !.reports = Append(@, report)]

\* the locals a call holds while it waits on client.chat; pre is the session
\* as the call found it, state the session with the quote recorded
Frame(op, session_id, bid, ask, rationale, pre, state) ==
    LET mid   == _calc_mid(bid, ask)
        width == _calc_width(bid, ask)
        pct   == _calc_width_pct_of_bid(bid, width)
    IN  [op |-> op, session_id |-> session_id, bid |-> bid, ask |-> ask,
         rationale |-> rationale, mid |-> mid, width |-> width, pct |-> pct,
         memory |-> _format_round_memory(state), pre |-> pre]

\* quotes recorded so far, over all sessions
RECURSIVE SumQuotes(_)
SumQuotes(S) ==
    IF S = {} THEN 0
    ELSE LET s == CHOOSE x \in S : TRUE IN Len(sessions[s].quotes) + SumQuotes(S \ {s})

TotalQuotes == SumQuotes(DOMAIN sessions)

\* room for one more call to go as far as client.chat
Room == TotalQuotes < MaxQuotes /\ Cardinality(inflight) < NumThreads

\* no call is inside the engine
Quiet == inflight = {}

\* an identifier that was issued before, when there is one
uuid4Reused == IF sessions = << >> THEN 1 ELSE CHOOSE s \in DOMAIN sessions : TRUE

\* str(uuid.uuid4()): an identifier not issued before; identifiers are opaque,
\* and the model issues them in order
uuid4 == Cardinality(DOMAIN sessions) + 1

\* a store that holds the new session alone
StoreSessionAlone(store, sid, state) == (sid :> state)

\* self._sessions[sid] = state: the entry of sid is set, the others are kept
StoreSession(store, sid, state) == (sid :> state) @@ store

\* ----- start_session
start_session(sid, question) ==
    /\ sid = uuid4
    /\ sessions' = StoreSession(sessions, sid, SessionState(sid, question))
    /\ response' = Response("ok", 0)
    /\ UNCHANGED inflight

\* ----- get_state (engine.get_state and the 404 of api.get_state)
get_state(session_id) ==
    /\ response' = Response(IF Known(session_id) THEN "ok" ELSE "NotFound", 0)
    /\ UNCHANGED << sessions, inflight >>

\* ----- submit_quote, up to the client.chat request (lines 98-127)
submit_quote(session_id, bid, ask, rationale) ==
    LET check == SubmitQuoteCheck(session_id, bid, ask)
    IN  IF check # "ok"
        THEN /\ response' = Response(check, 0)
             /\ UNCHANGED << sessions, inflight >>
        ELSE /\ Room
             /\ sessions' = [sessions EXCEPT ![session_id] =
                                 SubmitQuoteRecord(@, bid, ask, rationale)]
             /\ inflight' = inflight \cup
                   {Frame("submit_quote", session_id, bid, ask, rationale,
                          sessions[session_id], sessions'[session_id])}
             /\ response' = Response("none", 0)

\* ----- submit_quote, from the answer of client.chat on (lines 127-138)
submit_quote_return(f, content) ==
    /\ f \in inflight /\ f.op = "submit_quote"
    /\ LET report == SubmitQuoteReport(sessions[f.session_id], f, content)
       IN  /\ sessions' = [sessions EXCEPT ![f.session_id] = SubmitQuoteAppend(@, report)]
           /\ response' = Response("ok", report.round_index)
    /\ inflight' = inflight \ {f}

\* ----- client.chat raises inside submit_quote (openrouter_client.py line 80, or
\* the request itself fails): the exception leaves submit_quote at line 127
submit_quote_raise(f, e) ==
    /\ f \in inflight /\ f.op = "submit_quote"
    /\ response' = ChatErrorResponse(e)
    /\ inflight' = inflight \ {f}
    /\ UNCHANGED sessions

\* ----- finalize_round4, up to the client.chat request (lines 142-168)
finalize_round4(session_id, bid, ask, rationale) ==
    LET check == FinalizeCheck(session_id, bid, ask)
    IN  IF check # "ok"
        THEN /\ response' = Response(check, 0)
             /\ UNCHANGED << sessions, inflight >>
        ELSE /\ Room
             /\ sessions' = [sessions EXCEPT ![session_id] =
                                 FinalizeRecord(@, bid, ask, rationale)]
             /\ inflight' = inflight \cup
                   {Frame("finalize_round4", session_id, bid, ask, rationale,
                          sessions[session_id], sessions'[session_id])}
             /\ response' = Response("none", 0)

\* ----- finalize_round4, from the answer of client.chat on (lines 168-181)
finalize_round4_return(f, content) ==
    /\ f \in inflight /\ f.op = "finalize_round4"
    /\ LET report == FinalizeReport(f, content)
       IN  /\ sessions' = [sessions EXCEPT ![f.session_id] = FinalizeAppend(@, report)]
           /\ response' = Response("ok", report.round_index)
    /\ inflight' = inflight \ {f}

\* ----- client.chat raises inside finalize_round4
finalize_round4_raise(f, e) ==
    /\ f \in inflight /\ f.op = "finalize_round4"
    /\ response' = ChatErrorResponse(e)
    /\ inflight' = inflight \ {f}
    /\ UNCHANGED sessions

\* ------------------------------------------------------ specifications
\* a request arrives: the part of each handler that runs before client.chat
\* the handlers of api.py hand out fields and copies (StartSessionOut,
\* SessionStateOut), never the SessionState itself
Arrive(max_sessions, quotes) ==
    \/ \E sid \in Ids, q \in Questions :
          /\ Cardinality(DOMAIN sessions) < max_sessions
          /\ start_session(sid, q)
          /\ UNCHANGED << held, call, result >>
    \/ \E s \in Ids : get_state(s) /\ UNCHANGED << held, call, result >>
    \/ \E s \in Ids, q \in quotes, r \in Rationales :
          submit_quote(s, q[1], q[2], r) /\ UNCHANGED << held, call, result >>
    \/ \E s \in Ids, q \in quotes, r \in Rationales :
          finalize_round4(s, q[1], q[2], r) /\ UNCHANGED << held, call, result >>

\* client.chat answers or raises
Answer ==
    \/ \E f \in inflight, c \in Contents : submit_quote_return(f, c) /\ UNCHANGED << held, call, result >>
    \/ \E f \in inflight, e \in ChatErrors : submit_quote_raise(f, e) /\ UNCHANGED << held, call, result >>
    \/ \E f \in inflight, c \in Contents : finalize_round4_return(f, c) /\ UNCHANGED << held, call, result >>
    \/ \E f \in inflight, e \in ChatErrors : finalize_round4_raise(f, e) /\ UNCHANGED << held, call, result >>

\* the server: requests are taken while others wait on client.chat
Next == Arrive(MaxSessions, QuoteInputs) \/ Answer

Spec == Init /\ [][Next]_vars

\* no two of the calls are on the same session
OnePerSession(calls) == \A f, g \in calls : f # g => f.session_id # g.session_id

\* callers with a session each, every one of them letting its call finish before
\* it makes the next: calls overlap, but only calls on different sessions
ParallelNext == (Arrive(SeqSessions, QuoteInputs) /\ OnePerSession(inflight')) \/ Answer

ParallelSpec == Init /\ [][ParallelNext]_vars

\* a caller that lets each call finish before it makes the next
SeqNext == (Quiet /\ Arrive(SeqSessions, QuoteInputs)) \/ Answer

SeqSpec == Init /\ [][SeqNext]_vars

\* ----- a caller whose calls the language model answers in the end
\* the sessions that have yet to get a finalize_round4 through: not finalized,
\* and no finalize_round4 on them waiting on client.chat
Needy ==
    {s \in DOMAIN sessions :
        /\ ~sessions[s].final_done
        /\ ~\E f \in inflight : f.session_id = s /\ f.op = "finalize_round4"}

\* the bound on the quotes leaves each of those sessions one quote: the language
\* model fails, rounds are played and sessions are started only as long as every
\* open session can still be sent a finalize_round4, and the last of those the
\* bound allows is one the language model answers
Reserved == TotalQuotes + Cardinality(Needy) <= MaxQuotes

LiveNext == ((Quiet /\ Arrive(MaxSessions, QuoteInputs)) \/ Answer) /\ Reserved'

\* client.chat returns or raises within its timeout (openrouter_client.py line
\* 76): a call that waits on it does not wait for ever
LiveSpec == Init /\ [][LiveNext]_vars /\ WF_vars(Answer /\ Reserved')

\* the same caller sending the floats a JSON body can carry: a quote whose
\* percentage is not a whole number, a quote of NaN, and an invalid quote
FloatQuotes == {<< 3, 4 >>, << NaN, NaN >>, << 2, 1 >>}

FloatNext == (Quiet /\ Arrive(MaxSessions, FloatQuotes)) \/ Answer

FloatSpec == Init /\ [][FloatNext]_vars

\* ----- a caller inside the process, using the engine as test_engine_flow does
\* st = eng.start_session(question): line 91 returns the object stored at line 90
engine_start_session(sid, question) ==
    /\ start_session(sid, question)
    /\ held' = sid

\* st = eng.get_state(session_id): line 94 returns the stored object, or None
engine_get_state(session_id) ==
    /\ get_state(session_id)
    /\ held' = IF Known(session_id) THEN session_id ELSE NoRef

\* st.final_done = True: the caller assigns a field of the object it holds
caller_write ==
    /\ held # NoRef
    /\ sessions' = [sessions EXCEPT ![held].final_done = TRUE]
    /\ response' = Response("none", 0)
    /\ UNCHANGED << inflight, held >>

\* the SessionState the caller reads through what it holds
HeldValue == sessions[held]

CallerArrive ==
    \/ \E sid \in Ids, q \in Questions :
          /\ Cardinality(DOMAIN sessions) < MaxSessions
          /\ engine_start_session(sid, q)
          /\ UNCHANGED << call, result >>
    \/ \E s \in Ids : engine_get_state(s) /\ UNCHANGED << call, result >>
    \/ \E s \in Ids, q \in QuoteInputs, r \in Rationales :
          submit_quote(s, q[1], q[2], r) /\ UNCHANGED << held, call, result >>
    \/ \E s \in Ids, q \in QuoteInputs, r \in Rationales :
          finalize_round4(s, q[1], q[2], r) /\ UNCHANGED << held, call, result >>
    \/ caller_write /\ UNCHANGED << call, result >>

CallerNext == (Quiet /\ CallerArrive) \/ Answer

CallerSpec == Init /\ [][CallerNext]_vars

\* ----- the metrics on their own: every bid and ask, the invalid ones too
Prices == (0 - 1) .. MaxPrice

\* submit_quote lines 110-112 (finalize_round4 lines 152-154)
metrics ==
    /\ call.fn = "metrics" /\ ~result.done
    /\ result' = [done |-> TRUE,
                  mid |-> _calc_mid(call.bid, call.ask),
                  width |-> _calc_width(call.bid, call.ask),
                  pct |-> _calc_width_pct_of_bid(call.bid, _calc_width(call.bid, call.ask))]
    /\ UNCHANGED << sessions, inflight, response, held, call >>

MetricsInit ==
    /\ sessions = << >> /\ inflight = {} /\ response = Response("none", 0) /\ held = NoRef
    /\ call \in [fn : {"metrics"}, bid : Prices, ask : Prices]
    /\ result = NoResult

MetricsNext == metrics

MetricsSpec == MetricsInit /\ [][MetricsNext]_vars

\* ----- the parsers on their own
\* hint, coaching = _split_hint_and_coaching(content)
split ==
    /\ call.fn = "split" /\ ~result.done
    /\ result' = [done |-> TRUE,
                  hint |-> _split_hint_and_coaching(call.content)[1],
                  coaching |-> _split_hint_and_coaching(call.content)[2]]
    /\ UNCHANGED << sessions, inflight, response, held, call >>

\* final_report = _extract_final_report(content)
extract ==
    /\ call.fn = "extract" /\ ~result.done
    /\ result' = [done |-> TRUE, again |-> FALSE,
                  report |-> _extract_final_report(call.content)]
    /\ UNCHANGED << sessions, inflight, response, held, call >>

\* _extract_final_report(final_report): the extractor on its own result
extract_again ==
    /\ call.fn = "extract" /\ result.done /\ ~result.again
    /\ result' = [done |-> TRUE, again |-> TRUE, report |-> result.report,
                  second |-> _extract_final_report(result.report)]
    /\ UNCHANGED << sessions, inflight, response, held, call >>

ParserInit ==
    /\ sessions = << >> /\ inflight = {} /\ response = Response("none", 0) /\ held = NoRef
    /\ call \in [fn : {"split", "extract"}, content : Texts]
    /\ result = NoResult

ParserNext == split \/ extract \/ extract_again

ParserSpec == ParserInit /\ [][ParserNext]_vars

\* ============================================================== claims
\* vocabulary of the claims, stated on its own terms
BadQuote(bid, ask) == ask < bid \/ bid <= 0 \/ ask <= 0

GoodQuotes == {q \in QuoteInputs : ~BadQuote(q[1], q[2])}

Last(seq) == seq[Len(seq)]

\* a session on which exactly k rounds were played by submit_quote, each to its
\* report, and nothing else was recorded
Played(state, k) ==
    /\ state.round_number = k
    /\ Len(state.quotes) = k
    /\ Len(state.reports) = k
    /\ ~state.final_done

\* the step is a submit_quote / finalize_round4 request naming s
SubmitStep(s) == \E q \in QuoteInputs, r \in Rationales : submit_quote(s, q[1], q[2], r)

FinalizeStep(s) == \E q \in QuoteInputs, r \in Rationales : finalize_round4(s, q[1], q[2], r)

\* ----- C1
\* C1: round sequencing.  With each call finished before the next, on a session
\* where k < 3 rounds were played by successful submit_quote calls, a submit_quote
\* with a valid quote is accepted and, when the model answers, returns round_index
\* k + 1 and records it; after three such rounds the reports carry 1, 2, 3 in
\* order and a further submit_quote fails with RoundExhausted.
C1_Accepted ==
    \A s \in DOMAIN sessions, q \in GoodQuotes, r \in Rationales :
        (submit_quote(s, q[1], q[2], r) /\ \E k \in 0 .. 2 : Played(sessions[s], k))
            => inflight' # inflight

C1_Returned ==
    \A f \in inflight, c \in Contents :
        (submit_quote_return(f, c) /\ \E k \in 0 .. 2 : Played(f.pre, k))
            => /\ response' = Response("ok", f.pre.round_number + 1)
               /\ Last(sessions'[f.session_id].reports).round_index = f.pre.round_number + 1
               /\ \A i \in 1 .. Len(sessions'[f.session_id].reports) :
                      sessions'[f.session_id].reports[i].round_index = i

C1_Fourth ==
    \A s \in DOMAIN sessions :
        (SubmitStep(s) /\ Played(sessions[s], 3))
            => response'.kind = "RoundExhausted" /\ sessions' = sessions

C1_RoundSequencing == [][C1_Accepted /\ C1_Returned /\ C1_Fourth]_vars

\* three rounds played and reported 1, 2, 3, and the fourth submit_quote refused
C1_Witness ==
    \E s \in DOMAIN sessions :
        /\ Played(sessions[s], 3)
        /\ \A i \in 1 .. 3 : sessions[s].reports[i].round_index = i
        /\ response.kind = "RoundExhausted"

\* ----- C2
\* C2: finalization is terminal.  With each call finished before the next, once
\* finalize_round4 has succeeded on a session (its final_done is set), every
\* submit_quote and finalize_round4 on it fails with AlreadyFinalized and changes
\* nothing, get_state succeeds, and the last report is the round-4 final report.
C2_LastReport ==
    \A s \in DOMAIN sessions :
        sessions[s].final_done
            => /\ Len(sessions[s].reports) > 0
               /\ Last(sessions[s].reports).round_index = 4
               /\ Last(sessions[s].reports).final_report # None

C2_Refused ==
    \A s \in DOMAIN sessions :
        (sessions[s].final_done /\ (SubmitStep(s) \/ FinalizeStep(s)))
            => response'.kind = "AlreadyFinalized" /\ sessions' = sessions

C2_GetState ==
    \A s \in DOMAIN sessions :
        (sessions[s].final_done /\ get_state(s))
            => response'.kind = "ok" /\ sessions' = sessions

C2_FinalizationTerminal == [](C2_LastReport) /\ [][C2_Refused /\ C2_GetState]_vars

\* a finalized session on which a later call was refused
C2_Witness ==
    \E s \in DOMAIN sessions :
        /\ sessions[s].final_done
        /\ Last(sessions[s].reports).round_index = 4
        /\ response.kind = "AlreadyFinalized"

\* ----- C3
\* C3: whenever no call is inside the engine, every session has as many recorded
\* quotes as recorded reports.
C3_QuotesMatchReports ==
    Quiet => \A s \in DOMAIN sessions : Len(sessions[s].quotes) = Len(sessions[s].reports)

\* ----- C4
\* C4: a submit_quote or finalize_round4 that fails, with whatever error kind,
\* leaves the session as the call found it.
C4_Rejected ==
    \A s \in Ids :
        ((SubmitStep(s) \/ FinalizeStep(s)) /\ response'.kind \notin {"ok", "none"} /\ inflight' = inflight)
            => sessions' = sessions

C4_Raised ==
    \A f \in inflight, e \in ChatErrors :
        ((submit_quote_raise(f, e) \/ finalize_round4_raise(f, e))
            /\ response'.kind = "UpstreamFailure")
            => sessions'[f.session_id] = f.pre

C4_NoPartialMutation == [][C4_Rejected /\ C4_Raised]_vars

\* ----- C5
\* C5 as stated: on every existing session, a submit_quote or finalize_round4
\* with ask < bid or bid <= 0 or ask <= 0 fails with InvalidQuote and changes
\* nothing.
C5_Original ==
    [][\A s \in DOMAIN sessions, q \in QuoteInputs, r \in Rationales :
          (BadQuote(q[1], q[2]) /\ (submit_quote(s, q[1], q[2], r) \/ finalize_round4(s, q[1], q[2], r)))
              => response'.kind = "InvalidQuote" /\ sessions' = sessions]_vars

\* C5 as amended: on every existing session such a call fails and changes nothing,
\* in-flight calls included; the failure is AlreadyFinalized when the session is
\* terminal, RoundExhausted for a submit_quote on a non-terminal session with
\* round_number >= 3, and InvalidQuote otherwise.
C5_SubmitKind(state) ==
    IF state.final_done THEN "AlreadyFinalized"
    ELSE IF state.round_number >= 3 THEN "RoundExhausted"
    ELSE "InvalidQuote"

C5_FinalizeKind(state) == IF state.final_done THEN "AlreadyFinalized" ELSE "InvalidQuote"

C5_InvalidQuoteRejected ==
    [][\A s \in DOMAIN sessions, q \in QuoteInputs, r \in Rationales :
          BadQuote(q[1], q[2])
              => /\ submit_quote(s, q[1], q[2], r)
                       => /\ response'.kind = C5_SubmitKind(sessions[s])
                          /\ sessions' = sessions /\ inflight' = inflight
                 /\ finalize_round4(s, q[1], q[2], r)
                       => /\ response'.kind = C5_FinalizeKind(sessions[s])
                          /\ sessions' = sessions /\ inflight' = inflight]_vars

\* an invalid quote refused on a session that already holds a quote
C5_Witness ==
    \E s \in DOMAIN sessions :
        /\ response.kind = "InvalidQuote"
        /\ Len(sessions[s].quotes) > 0
        /\ ~sessions[s].final_done

\* ----- C6
\* C6: finalize_round4 is callable whatever the round number.  On an existing
\* session that is not terminal, a finalize_round4 with a valid quote is accepted
\* and sets round_number to 4; when the model answers, the call returns
\* round_index 4, with round_number 4 and final_done set.  No finalize_round4
\* fails with RoundExhausted.
C6_Accepted ==
    \A s \in DOMAIN sessions, q \in GoodQuotes, r \in Rationales :
        (finalize_round4(s, q[1], q[2], r) /\ ~sessions[s].final_done)
            => /\ inflight' # inflight
               /\ sessions'[s].round_number = 4

C6_Returned ==
    \A f \in inflight, c \in Contents :
        finalize_round4_return(f, c)
            => /\ response' = Response("ok", 4)
               /\ Last(sessions'[f.session_id].reports).round_index = 4
               /\ sessions'[f.session_id].round_number = 4
               /\ sessions'[f.session_id].final_done

C6_NeverExhausted ==
    \A s \in Ids : FinalizeStep(s) => response'.kind # "RoundExhausted"

C6_FinalizeAnyRound == [][C6_Accepted /\ C6_Returned /\ C6_NeverExhausted]_vars

\* finalize_round4 has succeeded after three rounds of submit_quote
C6_Witness ==
    \E s \in DOMAIN sessions :
        /\ sessions[s].final_done
        /\ sessions[s].round_number = 4
        /\ Len(sessions[s].reports) = 4
        /\ response = Response("ok", 4)

\* ----- C7
\* C7: no two reports of a session carry the same round_index, and the report a
\* call records carries the round number that call assigned (the round it found
\* plus one for submit_quote, 4 for finalize_round4).
C7_NoTwoReportsOfARound ==
    \A s \in DOMAIN sessions :
        \A i, j \in 1 .. Len(sessions[s].reports) :
            i # j => sessions[s].reports[i].round_index # sessions[s].reports[j].round_index

C7_OwnRound ==
    \A f \in inflight, c \in Contents :
        /\ submit_quote_return(f, c)
               => Last(sessions'[f.session_id].reports).round_index = f.pre.round_number + 1
        /\ finalize_round4_return(f, c)
               => Last(sessions'[f.session_id].reports).round_index = 4

C7_OneTransitionPerRound == [](C7_NoTwoReportsOfARound) /\ [][C7_OwnRound]_vars

\* ----- C8
\* C8: once final_done is set on a session, no step appends a quote or a report
\* to it or changes its round_number.
C8_NoMutationOnceTerminal ==
    [][\A s \in DOMAIN sessions :
          sessions[s].final_done
              => /\ sessions'[s].quotes = sessions[s].quotes
                 /\ sessions'[s].reports = sessions[s].reports
                 /\ sessions'[s].round_number = sessions[s].round_number]_vars

\* ----- C9
\* C9: round_number of every session lies in 0..4, and no step lowers it.
C9_InRange == \A s \in DOMAIN sessions : sessions[s].round_number \in 0 .. 4

C9_NoDecrease ==
    \A s \in DOMAIN sessions :
        s \in DOMAIN sessions' /\ sessions'[s].round_number >= sessions[s].round_number

C9_RoundNumberMonotone == [](C9_InRange) /\ [][C9_NoDecrease]_vars

\* round_number 4 left by a finalize_round4 that failed upstream, and a
\* submit_quote refused there
C9_Witness ==
    \E s \in DOMAIN sessions :
        /\ sessions[s].round_number = 4
        /\ ~sessions[s].final_done
        /\ response.kind = "RoundExhausted"

\* ----- C10
\* C10: submit_quote, finalize_round4 and get_state naming an id that is not in
\* the store answer NotFound, and the store is left as it was.
C10_UnknownSession ==
    [][\A s \in Ids \ DOMAIN sessions :
          (get_state(s) \/ SubmitStep(s) \/ FinalizeStep(s))
              => /\ response'.kind = "NotFound"
                 /\ sessions' = sessions
                 /\ inflight' = inflight]_vars

\* NotFound answered while the store holds a session with a recorded quote
C10_Witness ==
    /\ response.kind = "NotFound"
    /\ \E s \in DOMAIN sessions : Len(sessions[s].quotes) > 0


\* ----- C11
\* a text field of a report that holds nothing: None, or the empty text
Empty(t) == t = None \/ t = << >>

\* C11: the two content shapes of a report are told apart by its round index.  In
\* every stored report: with round_index 1..3 the final_report is empty; with
\* round_index 4 the hint and the coaching are empty; and never are hint or
\* coaching populated together with final_report.
C11_ReportShapes ==
    \A s \in DOMAIN sessions : \A i \in 1 .. Len(sessions[s].reports) :
        LET r == sessions[s].reports[i]
        IN  /\ r.round_index \in 1 .. 3 => Empty(r.final_report)
            /\ r.round_index = 4 =>
                   Empty(r.hint_or_reveal) /\ Empty(r.coaching_or_teaching)
            /\ ~Empty(r.final_report) =>
                   Empty(r.hint_or_reveal) /\ Empty(r.coaching_or_teaching)

\* ----- C12
\* the step is a start_session request
StartStep(sid, q) == start_session(sid, q)

\* C12: start_session stores a fresh session (round_number 0, no quotes, no
\* reports, not terminal, the given question) under an identifier that is not in
\* the store, and leaves every session already stored as it was; and no step at
\* all changes the question of a stored session.
C12_FreshSession ==
    [][/\ \A sid \in Ids, q \in Questions :
             StartStep(sid, q) =>
                 /\ sid \notin DOMAIN sessions
                 /\ DOMAIN sessions' = DOMAIN sessions \cup {sid}
                 /\ sessions'[sid].session_id = sid
                 /\ sessions'[sid].question = q
                 /\ sessions'[sid].round_number = 0
                 /\ sessions'[sid].quotes = << >>
                 /\ sessions'[sid].reports = << >>
                 /\ sessions'[sid].final_done = FALSE
                 /\ \A s \in DOMAIN sessions : sessions'[s] = sessions[s]
                 /\ response'.kind = "ok"
       /\ \A s \in DOMAIN sessions :
             s \in DOMAIN sessions' /\ sessions'[s].question = sessions[s].question]_vars

\* a second session was started, fresh, beside one that has played a round
C12_Witness ==
    /\ response = Response("ok", 0)
    /\ \E s, t \in DOMAIN sessions :
          /\ s # t
          /\ Len(sessions[s].reports) > 0
          /\ sessions[t].round_number = 0 /\ sessions[t].quotes = << >>

\* ----- C13
\* the step is part of a submit_quote or finalize_round4 call
EngineCallStep ==
    \/ \E s \in Ids : SubmitStep(s) \/ FinalizeStep(s)
    \/ \E f \in inflight, c \in Contents :
          submit_quote_return(f, c) \/ finalize_round4_return(f, c)
    \/ \E f \in inflight, e \in ChatErrors :
          submit_quote_raise(f, e) \/ finalize_round4_raise(f, e)

\* C13: callers hold copies.  The session value a caller got from start_session
\* or get_state is not changed by a later submit_quote or finalize_round4; a
\* change the caller makes to that value does not change the stored session; and
\* get_state changes nothing in the store.
C13_CallersHoldCopies ==
    [][/\ (held # NoRef /\ held' = held /\ EngineCallStep) => HeldValue' = HeldValue
       /\ caller_write => sessions' = sessions
       /\ \A s \in Ids : get_state(s) => sessions' = sessions]_vars

\* ----- C14
\* the calls waiting on client.chat: each holds one request to the language model
Requests == Cardinality(inflight)

\* C14: when client.chat fails, the submit_quote or finalize_round4 that called
\* it fails with UpstreamFailure carrying the message of that failure unchanged,
\* and the request is not made again; an accepted call makes one request to the
\* language model, and a call that fails validation makes none.
C14_Failure ==
    \A f \in inflight, e \in ChatErrors :
        (submit_quote_raise(f, e) \/ finalize_round4_raise(f, e))
            => /\ response'.kind = "UpstreamFailure"
               /\ response'.detail = e.message
               /\ Requests' = Requests - 1

C14_OneRequest ==
    \A s \in Ids :
        (SubmitStep(s) \/ FinalizeStep(s))
            => IF response'.kind = "none" THEN Requests' = Requests + 1
               ELSE inflight' = inflight

C14_UpstreamFailure == [][C14_Failure /\ C14_OneRequest]_vars

\* ----- C15
\* |x - y| <= 3 * 2^(-Precision) * y for floats x and y >= 0: x and y differ by no
\* more than the rounding of two operations
Close(x, y) ==
    LET diff == x[1] * y[2] - y[1] * x[2]
        gap  == IF diff < 0 THEN 0 - diff ELSE diff
    IN  gap * Pow2(Precision) <= 3 * y[1] * x[2]

\* the parts of C15 that do not involve the product widthPercentOfBid * bid
C15_Rest ==
    /\ (0 < call.bid /\ call.bid <= call.ask) =>
           /\ result.width = fsub(float(call.ask), float(call.bid))
           /\ fle(float(0), result.width)
           /\ fle(float(call.bid), result.mid) /\ fle(result.mid, float(call.ask))
           /\ fmul(float(2), result.mid) = fadd(float(call.bid), float(call.ask))
    /\ call.bid <= 0 => result.pct = float(0)
    /\ call.ask < call.bid => result.width = float(0)

Has(content, label) == \E i \in 1 .. Len(content) : content[i] = label

Inked(content) == {i \in 1 .. Len(content) : content[i] \notin {Blank, NL}}

\* the text without the blanks and line breaks at its two ends
Trimmed(content) ==
    IF Inked(content) = {} THEN << >>
    ELSE LET first == CHOOSE i \in Inked(content) : \A j \in Inked(content) : i <= j
             last  == CHOOSE i \in Inked(content) : \A j \in Inked(content) : j <= i
         IN  SubSeq(content, first, last)

\* C16: hint/coaching fallback.  For every text in which neither "Hint:" nor
\* "Coaching:" occurs, in whatever case, the split returns the trimmed text as
\* the hint and an empty coaching.
C16_Fallback ==
    (/\ call.fn = "split" /\ result.done
     /\ ~Has(call.content, Hint1) /\ ~Has(call.content, Coaching1))
        => /\ result.hint = Trimmed(call.content)
           /\ result.coaching = << >>

\* the split of an unlabelled text that has blanks to trim and words to keep
C16_Witness ==
    /\ call.fn = "split" /\ result.done
    /\ ~Has(call.content, Hint1) /\ ~Has(call.content, Coaching1)
    /\ Len(call.content) = MaxLen
    /\ call.content[1] = NL /\ call.content[MaxLen] = Blank
    /\ Len(result.hint) = MaxLen - 2

\* ----- C17
\* the text from the first "Final Report:" on
FromMarker(content) ==
    LET first == CHOOSE i \in 1 .. Len(content) :
                     content[i] = Final1 /\ \A j \in 1 .. (i - 1) : content[j] # Final1
    IN  SubSeq(content, first, Len(content))

\* C17: final-report extraction.  For every text holding "Final Report:" the
\* extractor returns the text from the first marker to the end, trimmed, without
\* what precedes the marker; for every other text it returns the trimmed text;
\* and the extractor applied to its own result returns that result.
C17_ExtractFinalReport ==
    (call.fn = "extract" /\ result.done) =>
        /\ Has(call.content, Final1) => result.report = Trimmed(FromMarker(call.content))
        /\ ~Has(call.content, Final1) => result.report = Trimmed(call.content)
        /\ result.again => result.second = result.report

\* ----- C18
\* the line scan of the spec on a text: the lines after a label line go to the
\* bucket of that label, up to the next label line
LineScan(content) ==
    LET r == scan_lines(splitlines(content), << >>, << >>, "none")
    IN  << Trimmed(join(r[1])), Trimmed(join(r[2])) >>

\* a line of the text, trimmed, starts with the label
LabelLine(content, label) ==
    \E i \in 1 .. Len(splitlines(content)) :
        LET line == Trimmed(splitlines(content)[i])
        IN  line # << >> /\ line[1] = label

\* C18: the split follows the line scan on every text that has a label line;
\* so for a text with a "Hint:" line and no "Coaching:" label the hint is what
\* follows the "Hint:" line and the coaching is empty, and the reverse.
C18_LineScan ==
    (/\ call.fn = "split" /\ result.done
     /\ LabelLine(call.content, Hint1) \/ LabelLine(call.content, Coaching1))
        => << result.hint, result.coaching >> = LineScan(call.content)

\* ----- C19
\* the text holds something other than labels, blanks and line breaks
HasContent(content) ==
    \E i \in 1 .. Len(content) : content[i] \notin {Hint1, Coaching1, Blank, NL}

\* C19: the split never silently drops the model's content.  For every text
\* that holds a character other than blanks, line breaks and the labels "Hint:"
\* and "Coaching:", the returned hint and coaching are not both empty.
C19_NothingDropped ==
    (call.fn = "split" /\ result.done /\ HasContent(call.content))
        => ~(result.hint = << >> /\ result.coaching = << >>)

\* ----- C20
\* the conditions of the spec, each with the error it stands for
NotFoundCond(s) == s \notin DOMAIN sessions

AlreadyFinalizedCond(s) == sessions[s].final_done

RoundExhaustedCond(s) == sessions[s].round_number >= 3

\* the error kind the answer must carry: the first condition that holds, in the
\* order NotFound, AlreadyFinalized, RoundExhausted (submit_quote only),
\* InvalidQuote; "none" when no condition holds and the call goes on
FirstError(op, s, bid, ask) ==
    IF NotFoundCond(s) THEN "NotFound"
    ELSE IF AlreadyFinalizedCond(s) THEN "AlreadyFinalized"
    ELSE IF op = "submit_quote" /\ RoundExhaustedCond(s) THEN "RoundExhausted"
    ELSE IF BadQuote(bid, ask) THEN "InvalidQuote"
    ELSE "none"

\* C20: check precedence.  When several error conditions hold at once,
\* submit_quote answers the first of NotFound, AlreadyFinalized, RoundExhausted,
\* InvalidQuote, and finalize_round4 the first of NotFound, AlreadyFinalized,
\* InvalidQuote.
C20_Precedence ==
    [][\A s \in Ids, q \in QuoteInputs, r \in Rationales :
          /\ submit_quote(s, q[1], q[2], r) =>
                 response'.kind = FirstError("submit_quote", s, q[1], q[2])
          /\ finalize_round4(s, q[1], q[2], r) =>
                 response'.kind = FirstError("finalize_round4", s, q[1], q[2])]_vars

\* AlreadyFinalized answered on a session where the round is exhausted as well
C20_Witness ==
    /\ response.kind = "AlreadyFinalized"
    /\ \E s \in DOMAIN sessions : AlreadyFinalizedCond(s) /\ RoundExhaustedCond(s)

\* ----- C21
\* the text without the blanks at its ends, and of that the first MaxExcerpt
\* tokens at most
Excerpt(t) ==
    LET x == Trimmed(t)
    IN  [i \in 1 .. (IF Len(x) <= MaxExcerpt THEN Len(x) ELSE MaxExcerpt) |-> x[i]]

\* the entry of one report: its round index and bid/ask, then an excerpt of each
\* text it has
EntryOf(r) ==
    << "- Round ", ToString(r.round_index), ": bid=", ToString(r.bid),
       ", ask=", ToString(r.ask) >>
    \o (IF Empty(r.hint_or_reveal) THEN << >>
        ELSE << NL, "  * Prior Hint: " >> \o Excerpt(r.hint_or_reveal))
    \o (IF Empty(r.coaching_or_teaching) THEN << >>
        ELSE << NL, "  * Prior Coaching: " >> \o Excerpt(r.coaching_or_teaching))
    \o (IF Empty(r.final_report) THEN << >>
        ELSE << NL, "  * Prior Final Report: " >> \o Excerpt(r.final_report))

\* the entries of the reports, in their order, one below the other
RECURSIVE EntriesOf(_)
EntriesOf(reports) ==
    IF Len(reports) = 1 THEN EntryOf(reports[1])
    ELSE EntriesOf(SubSeq(reports, 1, Len(reports) - 1)) \o << NL >> \o EntryOf(Last(reports))

\* how many entries a memory has
EntryCount(memory) == Cardinality({i \in 1 .. Len(memory) : memory[i] = "- Round "})

\* C21: round memory in the outbound prompt.  The memory a submit_quote or
\* finalize_round4 sends to the language model is "(none)" exactly when the
\* session has no report; otherwise it holds one entry for each report recorded
\* before the call, in recording order, with the report's round index, bid and
\* ask and an excerpt of at most MaxExcerpt tokens of each non-empty hint,
\* coaching and final report; it has no entry for the quote of the call itself.
C21_RoundMemory ==
    [][\A s \in DOMAIN sessions :
          ((SubmitStep(s) \/ FinalizeStep(s)) /\ inflight' # inflight) =>
              \A f \in inflight' \ inflight :
                  LET reports == sessions[s].reports
                  IN  /\ (f.memory = << "(none)" >>) <=> (reports = << >>)
                      /\ reports # << >> =>
                             /\ f.memory = EntriesOf(reports)
                             /\ EntryCount(f.memory) = Len(reports)
                             /\ EntryCount(f.memory) < Len(sessions'[s].quotes)]_vars

\* a call waits on the language model with a memory of two entries, one of them
\* with a hint that was cut, on a session that holds more quotes than reports
C21_Witness ==
    \E f \in inflight :
        /\ EntryCount(f.memory) = 2
        /\ Len(f.pre.reports) = 2
        /\ Len(f.pre.quotes) > 2
        /\ \E i \in 1 .. 2 : Len(f.pre.reports[i].hint_or_reveal) > MaxExcerpt

\* ----- C22
\* 0 < bid <= ask, as the comparisons of the program decide it
ValidPrices(x) == lt(0, x.bid) /\ le(x.bid, x.ask)

\* the metrics of a report are those of its bid and ask
OwnMetrics(r) ==
    /\ feq(r.width, fsub(float(r.ask), float(r.bid)))
    /\ feq(fmul(float(2), r.mid), fadd(float(r.bid), float(r.ask)))
    /\ feq(fmul(r.width_pct_of_bid, float(r.bid)), fmul(float(100), r.width))

\* seq' begins with seq: what was recorded is still there, unchanged
Kept(seq, seq2) == Len(seq2) >= Len(seq) /\ SubSeq(seq2, 1, Len(seq)) = seq

C22_Valid ==
    \A s \in DOMAIN sessions :
        /\ \A i \in 1 .. Len(sessions[s].quotes) : ValidPrices(sessions[s].quotes[i])
        /\ \A i \in 1 .. Len(sessions[s].reports) :
               ValidPrices(sessions[s].reports[i]) /\ OwnMetrics(sessions[s].reports[i])

C22_Kept ==
    \A s \in DOMAIN sessions :
        /\ s \in DOMAIN sessions'
        /\ Kept(sessions[s].quotes, sessions'[s].quotes)
        /\ Kept(sessions[s].reports, sessions'[s].reports)

\* C22: every recorded quote and every recorded report of every session has
\* 0 < bid <= ask; no step changes or removes a recorded quote or report; and
\* the metrics of every report are those of its own bid and ask: width =
\* ask - bid, 2 * mid = bid + ask, width_pct_of_bid * bid = 100 * width.
C22_QuotesAndReports == [](C22_Valid) /\ [][C22_Kept]_vars

\* ----- C23
\* the step belongs to a call addressed to the session id s: the request, or the
\* part of the call that runs when the language model has answered or failed
AddressedTo(s) ==
    \/ \E q \in Questions : StartStep(s, q)
    \/ get_state(s)
    \/ SubmitStep(s)
    \/ FinalizeStep(s)
    \/ \E f \in inflight :
          /\ f.session_id = s
          /\ \/ \E c \in Contents : submit_quote_return(f, c) \/ finalize_round4_return(f, c)
             \/ \E e \in ChatErrors : submit_quote_raise(f, e) \/ finalize_round4_raise(f, e)

\* the step leaves the session t as it was
Untouched(t) ==
    /\ t \in DOMAIN sessions'
    /\ sessions'[t].round_number = sessions[t].round_number
    /\ sessions'[t].quotes = sessions[t].quotes
    /\ sessions'[t].reports = sessions[t].reports
    /\ sessions'[t].final_done = sessions[t].final_done
    /\ sessions'[t].question = sessions[t].question

\* C23: sessions are independent.  A step of a start_session, submit_quote,
\* finalize_round4 or get_state call addressed to one session id, whether the
\* call succeeds or fails and whatever calls on other ids are under way, leaves
\* round_number, quotes, reports, final_done and question of every other
\* session as they were.
\* (Stated from the side of the other session: a step that does not leave a
\* session as it was belongs to no call addressed to another id.)
C23_Independent ==
    [][\A t \in DOMAIN sessions :
          Untouched(t) \/ \A s \in Ids \ {t} : ~AddressedTo(s)]_vars

\* calls on two sessions wait on the language model at the same time, a
\* submit_quote on one and a finalize_round4 on the other, each session with a
\* report already
C23_Witness ==
    \E f, g \in inflight :
        /\ f.session_id # g.session_id
        /\ Len(sessions[f.session_id].reports) > 0
        /\ Len(sessions[g.session_id].reports) > 0
        /\ f.op = "submit_quote" /\ g.op = "finalize_round4"

\* ----- C24
\* the session exists and is not terminal / is terminal
Open(s) == s \in DOMAIN sessions /\ ~sessions[s].final_done

Terminal(s) == s \in DOMAIN sessions /\ sessions[s].final_done

C24_Accepted ==
    \A s \in DOMAIN sessions, q \in GoodQuotes, r \in Rationales :
        (Open(s) /\ finalize_round4(s, q[1], q[2], r))
            => /\ response'.kind = "none"
               /\ \E f \in inflight' : f.session_id = s /\ f.op = "finalize_round4"

C24_Succeeds ==
    \A f \in inflight, c \in Contents :
        finalize_round4_return(f, c)
            => Terminal(f.session_id)' /\ response'.kind = "ok"

\* the caller sends a finalize_round4 with a valid quote for the session
FinalizeValid(s) ==
    Quiet /\ \E q \in GoodQuotes, r \in Rationales : finalize_round4(s, q[1], q[2], r)

\* C24: a session can always be brought to its end.  With each call finished
\* before the next, in every reachable state of an existing session that is not
\* terminal (states left by calls that failed upstream or with RoundExhausted
\* among them) a finalize_round4 with a valid quote is accepted, and it makes
\* the session terminal when the language model answers; so when the caller
\* keeps sending such calls and the language model answers in the end, the
\* session becomes terminal.
C24_CanFinish ==
    /\ [][C24_Accepted /\ C24_Succeeds]_vars
    /\ \A s \in Ids : ([]<><< FinalizeValid(s) >>_vars) => (Open(s) ~> Terminal(s))

\* a session finalized after calls on it had failed upstream: it holds more
\* quotes than reports, and rounds 1-3 were not all played
C24_Witness ==
    \E s \in DOMAIN sessions :
        /\ Terminal(s)
        /\ Len(sessions[s].quotes) > Len(sessions[s].reports)
        /\ Len(sessions[s].reports) < 4

\* ----- C25
\* the places of the reports of a session that carry round_index 4
Fourth(state) == {i \in 1 .. Len(state.reports) : state.reports[i].round_index = 4}

\* C25: with each call finished before the next, final_done of a session is set
\* exactly when its reports hold one with round_index 4; that report is then
\* the last and the only one with round_index 4; the round_index values of the
\* reports increase strictly in the order of recording; and final_done implies
\* round_number = 4.
C25_TerminalIffFourth ==
    \A s \in DOMAIN sessions :
        LET state == sessions[s]
        IN  /\ state.final_done <=> Fourth(state) # {}
            /\ Fourth(state) # {} => Fourth(state) = {Len(state.reports)}
            /\ \A i, j \in 1 .. Len(state.reports) :
                   i < j => state.reports[i].round_index < state.reports[j].round_index
            /\ state.final_done => state.round_number = 4

\* a finalized session whose reports skip a round, the call of that round having
\* failed upstream
C25_Witness ==
    \E s \in DOMAIN sessions :
        /\ sessions[s].final_done
        /\ Len(sessions[s].reports) = 2
        /\ sessions[s].reports[1].round_index = 2
        /\ sessions[s].reports[2].round_index = 4
====
